---- MODULE Spec2Model ----
(***************************************************************************)
(* A model of the incremental document build engine of fast_build.py:      *)
(* the include analysis (build_include_map, build_include_tree), the build *)
(* anchor index (collect_anchors), the build planner (all_files,           *)
(* build_order), the build pipeline (build_all, postprocess_html), the     *)
(* code cache (execute_code_blocks) and watch-and-serve mode.              *)
(*                                                                         *)
(* Ten specifications share the variables:                                 *)
(*   Spec       the include analysis and the planner as build_all calls    *)
(*              them, one function per step, over every bounded project;   *)
(*   SpecSteps  the same, one loop iteration per step;                     *)
(*   SpecDirs   the analysis and the directories watch_and_serve watches;  *)
(*   SpecBuild  build_all as one step, interleaved with source edits;      *)
(*   SpecFail   build_all when the renderer rejects one of the sources;    *)
(*   SpecPost   postprocess_html called on the pages of a build directory; *)
(*   SpecRefs   collect_anchors and replace_refs_text over bounded texts;  *)
(*   SpecGraph  load_yaml of yaml_graph.py over bounded descriptions;      *)
(*   SpecExec   execute_code_blocks against the persisted cache;           *)
(*   SpecWatch  watch_and_serve: main thread, server thread, observer      *)
(*              thread, emitters.                                          *)
(***************************************************************************)
EXTENDS Integers, Sequences, FiniteSets, TLC

VARIABLES
    files,          \* the source files that exist on disk (a set of paths)
    includes,       \* path -> the include directives of the file, in text order
    render_files,   \* the declared roots (project.render of _quarto.yml), in order
    pc,             \* the position of the analysis / of the build
    imap,           \* the loop state of build_include_map
    itree,          \* the loop state of build_include_tree
    iorder,         \* the loop state of build_order
    anchors,        \* the anchor index: declaring file -> the file that owns its anchors
    engine,         \* the execution engine: what running each code text does
    cache,          \* _nbcache: aggregate key -> the notebook stored under it
    ran,            \* the block sequences an earlier call ran or served
    last,           \* the last call of execute_code_blocks: input and result
    main,           \* watch_and_serve: the position of the main thread
    obs,            \* the observer thread that dispatches events to the handler
    queue,          \* the observer's event queue
    builds,         \* thread -> the phase of the build_all it is running
    srcv,           \* the version of the watched sources on disk
    snap,           \* the version in the polling emitter's last snapshot
    seenv,          \* the version the last reported source event stands for
    mirv,           \* the version of the sources mirrored into the build directory
    server,         \* the thread that runs serve()
    workdir,        \* the working directory of the process
    outv,           \* the version of the sources the output was built from
    watched,        \* the directories the observer's watches are scheduled on
    pages,          \* the build directory: path -> the HTML written for it
    version,        \* path -> the version of the source text on disk
    built,          \* the last call of build_all: what it found and left
    dirty,          \* a source was edited since the last build_all
    posted,         \* the calls of postprocess_html made on their own: count, last file
    broken,         \* the source files for which the renderer exits non-zero
    decls,          \* the anchor declarations of the sources, in the order they are scanned
    refindex,       \* the anchor index by key: key -> <<owning file, label>>
    doc,            \* a source text and what replace_refs_text made of it
    graph           \* a YAML graph description and what load_yaml made of it

planVars == <<files, includes, render_files, pc, imap, itree, iorder, anchors>>
execVars == <<engine, cache, ran, last>>
watchVars == <<main, obs, queue, builds, srcv, snap, seenv, mirv, server, workdir, outv, watched>>
refVars == <<decls, refindex, doc>>
graphVars == <<graph>>
buildVars == <<pages, version, built, dirty, posted, broken, refVars, graphVars>>
vars == <<planVars, execVars, watchVars, buildVars>>

(***************************************************************************)
(* Bounds.                                                                 *)
(***************************************************************************)
MaxEdges == 2       \* include directives in the whole project
MaxRoots == 2       \* declared roots

(***************************************************************************)
(* Paths.  A directory is the sequence of its components below the project *)
(* root: <<>> is the project root, <<"d">> its subdirectory d, <<"..">>    *)
(* the parent of the project root.  A path is <<directory, file name>>;    *)
(* paths are kept resolved (Path.resolve()).                               *)
(***************************************************************************)
ProjectRoot == <<>>
SubDir == <<"d">>
Dirs == {ProjectRoot, SubDir}
Names == {1, 2}
Paths == Dirs \X Names

\* an include directive {{< include rel/name >}}: rel is "." or "d"
Directives == {".", "d"} \X Names

DirOf(p) == p[1]

\* Path.parent of a directory
Parent(dir) ==
    IF dir = <<>> \/ dir[Len(dir)] = ".."
    THEN Append(dir, "..")
    ELSE SubSeq(dir, 1, Len(dir) - 1)

\* (dir / inc).resolve()
Join(dir, inc) ==
    <<IF inc[1] = "." THEN dir ELSE Append(dir, inc[1]), inc[2]>>

\* Path.exists()
Exists(p) == p \in files

SeqsUpTo(S, n) == UNION {[1..k -> S] : k \in 0..n}

RECURSIVE SelectIncs(_, _)
\* the directives of file p in an edge list, in order
SelectIncs(el, p) ==
    IF el = <<>> THEN <<>>
    ELSE LET rest == SelectIncs(Tail(el), p)
         IN IF el[1][1] = p THEN <<el[1][2]>> \o rest ELSE rest

Range(s) == {s[i] : i \in 1..Len(s)}

\* include_pattern.findall(current.read_text())
FindIncludes(p) == includes[p]

EmptyDict == [k \in {} |-> k]

\* dict.setdefault(k, []).append(v)
SetDefaultAppend(d, k, v) ==
    IF k \in DOMAIN d THEN [d EXCEPT ![k] = Append(@, v)] ELSE d @@ (k :> <<v>>)

\* dict.setdefault(k, v)
SetDefault(d, k, v) == IF k \in DOMAIN d THEN d ELSE d @@ (k :> v)

\* dict[k] = v
Put(d, k, v) == IF k \in DOMAIN d THEN [d EXCEPT ![k] = v] ELSE d @@ (k :> v)

Top(stack) == stack[Len(stack)]
Pop(stack) == SubSeq(stack, 1, Len(stack) - 1)

(***************************************************************************)
(* build_include_map: for every declared root, a depth-first walk with a   *)
(* visited set of its own; every directive is resolved against the ROOT's  *)
(* directory only and recorded whether or not the target exists.           *)
(* Loop state: ri (the root being walked, 0 before the first), stack,      *)
(* visited, included_by, and log (the files expanded in this walk).        *)
(***************************************************************************)
MapInit ==
    [ri |-> 0, stack |-> <<>>, visited |-> {}, included_by |-> EmptyDict,
     log |-> <<>>]

MapDone(s) == s.stack = <<>> /\ s.ri = Len(render_files)

RECURSIVE MapExpand(_, _, _, _, _)
\* the for loop over the directives of current, from directive i on
MapExpand(s, current, root_dir, incs, i) ==
    IF i > Len(incs) THEN s
    ELSE LET target == Join(root_dir, incs[i])
         IN MapExpand(
                [s EXCEPT !.included_by = SetDefaultAppend(@, target, current),
                          !.stack = Append(@, target)],
                current, root_dir, incs, i + 1)

\* one iteration of the while loop, or the start of the next root's walk
MapStep(s) ==
    IF s.stack = <<>>
    THEN [s EXCEPT !.ri = @ + 1,
                   !.stack = <<render_files[s.ri + 1]>>,
                   !.visited = {},
                   !.log = <<>>]
    ELSE LET current == Top(s.stack)
             popped == [s EXCEPT !.stack = Pop(@)]
         IN IF current \in s.visited \/ ~Exists(current)
            THEN popped
            ELSE MapExpand(
                     [popped EXCEPT !.visited = @ \cup {current},
                                    !.log = Append(@, current)],
                     current, DirOf(render_files[s.ri]),
                     FindIncludes(current), 1)

(***************************************************************************)
(* The anchor index.  collect_anchors scans every source file below the    *)
(* project root and records, for each anchor it declares, the file that    *)
(* owns it: resolve_render_file walks from the declaring file to its first *)
(* recorded includer until it is at a declared root, at a file it has seen *)
(* or at a file without a recorded includer.                               *)
(***************************************************************************)
RECURSIVE ResolveWalk(_, _, _)
\* the while loop of resolve_render_file, with its visited set
ResolveWalk(file, included_by, visited) ==
    IF file \in Range(render_files) THEN file
    ELSE IF file \in visited \/ file \notin DOMAIN included_by THEN file
    ELSE ResolveWalk(included_by[file][1], included_by, visited \cup {file})

resolve_render_file(file, included_by) == ResolveWalk(file, included_by, {})

\* the owner collect_anchors records for the anchors declared in each file
collect_anchors(included_by) ==
    [p \in files |-> resolve_render_file(p, included_by)]

(***************************************************************************)
(* build_include_tree: one depth-first walk from all roots with one        *)
(* visited set; a directive is resolved against the including file's       *)
(* directory, then the root directory, then the root directory's parent,   *)
(* and is skipped when none of the three exists.                           *)
(***************************************************************************)
Unresolved == <<<<"?">>, 0>>

\* lines 286-292: the first existing candidate, or Unresolved
ResolveInclude(current, root_dir, inc) ==
    LET c1 == Join(DirOf(current), inc)
        c2 == Join(root_dir, inc)
        c3 == Join(Parent(root_dir), inc)
    IN IF Exists(c1) THEN c1
       ELSE IF Exists(c2) THEN c2
       ELSE IF Exists(c3) THEN c3
       ELSE Unresolved

TreeInit ==
    [stack |-> render_files,
     visited |-> {},
     tree |-> EmptyDict,
     root_dirs |-> [p \in Range(render_files) |-> DirOf(p)],
     log |-> <<>>]

TreeDone(s) == s.stack = <<>>

RECURSIVE TreeExpand(_, _, _, _, _)
\* the for loop over the directives of current: <<includes, stack, root_dirs>>
TreeExpand(acc, current, root_dir, incs, i) ==
    IF i > Len(incs) THEN acc
    ELSE LET target == ResolveInclude(current, root_dir, incs[i])
         IN IF target = Unresolved
            THEN TreeExpand(acc, current, root_dir, incs, i + 1)
            ELSE TreeExpand(
                     [includes |-> Append(acc.includes, target),
                      stack |-> Append(acc.stack, target),
                      root_dirs |-> SetDefault(acc.root_dirs, target, root_dir)],
                     current, root_dir, incs, i + 1)

\* an iteration without the visited guard of line 279
TreeStepNoGuard(s) ==
    LET current == Top(s.stack)
        popped == [s EXCEPT !.stack = Pop(@)]
    IN IF ~Exists(current)
       THEN popped
       ELSE LET root_dir == IF current \in DOMAIN s.root_dirs
                            THEN s.root_dirs[current] ELSE DirOf(current)
                acc == TreeExpand(
                           [includes |-> <<>>, stack |-> popped.stack,
                            root_dirs |-> s.root_dirs],
                           current, root_dir, FindIncludes(current), 1)
            IN [stack |-> acc.stack,
                visited |-> s.visited \cup {current},
                tree |-> Put(s.tree, current, acc.includes),
                root_dirs |-> acc.root_dirs,
                log |-> Append(s.log, current)]

\* one iteration of the while loop
TreeStep(s) ==
    LET current == Top(s.stack)
        popped == [s EXCEPT !.stack = Pop(@)]
    IN IF current \in s.visited \/ ~Exists(current)
       THEN popped
       ELSE LET root_dir == IF current \in DOMAIN s.root_dirs
                            THEN s.root_dirs[current] ELSE DirOf(current)
                acc == TreeExpand(
                           [includes |-> <<>>, stack |-> popped.stack,
                            root_dirs |-> s.root_dirs],
                           current, root_dir, FindIncludes(current), 1)
            IN [stack |-> acc.stack,
                visited |-> s.visited \cup {current},
                tree |-> Put(s.tree, current, acc.includes),
                root_dirs |-> acc.root_dirs,
                log |-> Append(s.log, current)]

\* tree.get(f, [])
TreeGet(tree, f) == IF f \in DOMAIN tree THEN tree[f] ELSE <<>>

(***************************************************************************)
(* all_files: the declared roots that exist, and every key and every       *)
(* include of the tree that exists.                                        *)
(***************************************************************************)
\* every source file of the project
every_file(tree) == files

\* the declared roots alone, without what they include
declared_files(tree) == {f \in Range(render_files) : Exists(f)}

all_files(tree) ==
    {f \in Range(render_files) : Exists(f)}
    \cup {src \in DOMAIN tree : Exists(src)}
    \cup {inc \in UNION {Range(tree[src]) : src \in DOMAIN tree} : Exists(inc)}

(***************************************************************************)
(* build_order: visit(f) is recursive; frames is its call stack, a frame   *)
(* <<f, i>> being the activation of visit(f) about to look at child i.     *)
(* ri is the root the outer for loop is at, calls the log of the files     *)
(* whose children were walked.                                             *)
(***************************************************************************)
OrderInit ==
    [ri |-> 0, frames |-> <<>>, visited |-> {}, order |-> <<>>, calls |-> <<>>]

OrderDone(s) == s.frames = <<>> /\ s.ri = Len(render_files)

\* a visit that checks visited after the append: a file met again is
\* appended again
VisitAppendFirst(s, f) ==
    IF f \in s.visited
    THEN [s EXCEPT !.order = Append(@, f)]
    ELSE [s EXCEPT !.visited = @ \cup {f},
                   !.frames = Append(@, <<f, 1>>),
                   !.calls = Append(@, f)]

\* the call visit(f): returns at once when f is visited, else marks f and
\* opens its frame
Visit(s, f) ==
    IF f \in s.visited
    THEN s
    ELSE [s EXCEPT !.visited = @ \cup {f},
                   !.frames = Append(@, <<f, 1>>),
                   !.calls = Append(@, f)]

\* a visit that puts f at the head of the order (order.insert(0, f))
VisitEndPrepend(s, f) == [s EXCEPT !.order = <<f>> \o @, !.frames = Pop(@)]

\* what visit(f) does once all its children are visited
VisitEnd(s, f) == [s EXCEPT !.order = Append(@, f), !.frames = Pop(@)]

\* one step of build_order: the next call of visit, or the return of one
OrderStep(tree, s) ==
    IF s.frames = <<>>
    THEN Visit([s EXCEPT !.ri = @ + 1], render_files[s.ri + 1])
    ELSE LET f == Top(s.frames)[1]
             i == Top(s.frames)[2]
             kids == TreeGet(tree, f)
         IN IF i <= Len(kids)
            THEN Visit([s EXCEPT !.frames[Len(s.frames)] = <<f, i + 1>>], kids[i])
            ELSE VisitEnd(s, f)

\* postprocess_html has not been called on its own
NoPost == [n |-> 0, file |-> <<>>]

\* no build_all has run
NoBuildYet ==
    [n |-> 0, clean |-> FALSE, raised |-> FALSE, before |-> EmptyDict,
     mirrored |-> {}, rendered |-> <<>>, written |-> {}, splices |-> {},
     finished |-> FALSE, outputs |-> EmptyDict]

\* no text has been handed to replace_refs_text
NoDoc == [stage |-> "idle", text |-> <<>>, out |-> <<>>]

\* the reference resolver is not part of this specification
RefsIdle ==
    /\ decls = <<>>
    /\ refindex = EmptyDict
    /\ doc = NoDoc

\* an empty build directory, no build_all yet
PagesIdle ==
    /\ pages = EmptyDict
    /\ version = [p \in Paths |-> 0]
    /\ built = NoBuildYet
    /\ dirty = FALSE
    /\ posted = NoPost
    /\ broken = {}

\* no graph description has been handed to load_yaml
NoGraph == [stage |-> "idle", order |-> <<>>, data |-> EmptyDict, nodes |-> EmptyDict]

\* yaml_graph is not part of this specification
GraphIdle == graph = NoGraph

BuildIdle == PagesIdle /\ RefsIdle /\ GraphIdle

(***************************************************************************)
(* Watch-and-serve mode.  The main thread runs the initial build_all, then *)
(* schedules the handler and starts the observer, then sleeps.  The        *)
(* observer (watchdog) has emitter threads that poll the watched           *)
(* directories and put events on one queue, and one thread that takes the  *)
(* events off the queue and calls the handler for each, one at a time; an  *)
(* exception that leaves the handler ends that thread.                     *)
(* A build reads the sources at some point after it starts and writes the  *)
(* output when it ends; it may raise instead (render_file, line 415).      *)
(* Every path build_all and the emitters use is relative, and serve()      *)
(* changes the working directory of the process to the build directory     *)
(* for as long as it serves: from then on "_quarto.yml" is the copy        *)
(* build_all left in the build directory, whose render list is empty.      *)
(***************************************************************************)
MaxChanges == 2     \* source changes in one behaviour
MaxQueue == 2       \* events waiting in the observer's queue

Threads == {"main", "observer"}
NoBuild == [phase |-> "none", read |-> 0, where |-> "root"]

\* a file system event as the handler sees it
Events == [is_directory : BOOLEAN, qmd : BOOLEAN, in_build : BOOLEAN]
SourceEvent == [is_directory |-> FALSE, qmd |-> TRUE, in_build |-> FALSE]
DirEvent == [is_directory |-> TRUE, qmd |-> FALSE, in_build |-> FALSE]

\* a handler that builds for no event
QualifiesNever(e) == FALSE

\* ChangeHandler.handle, line 642
Qualifies(e) == ~e.is_directory /\ e.qmd /\ ~e.in_build

\* the event queue skips an event equal to the one put last and not yet taken
QueuePut(q, e) == IF q # <<>> /\ q[Len(q)] = e THEN q ELSE Append(q, e)

WatchIdle ==
    /\ main = "off"
    /\ obs = "off"
    /\ queue = <<>>
    /\ builds = [t \in Threads |-> NoBuild]
    /\ srcv = 0
    /\ snap = <<"root", 0>>
    /\ seenv = 0
    /\ mirv = 0
    /\ server = "off"
    /\ workdir = "root"
    /\ outv = 0
    /\ watched = {}

\* build_all is entered by thread t
BuildBegin(t) ==
    builds' = [builds EXCEPT ![t] = [phase |-> "started", read |-> 0, where |-> workdir]]

\* line 671: watch_and_serve calls build_all
InitialBuild ==
    /\ main = "start"
    /\ main' = "building"
    /\ BuildBegin("main")
    /\ UNCHANGED <<obs, queue, srcv, snap, seenv, mirv, server, workdir, outv,
                   watched,
                   planVars, execVars, buildVars>>

\* lines 570-585: load_rendered_files reads "_quarto.yml" and
\* mirror_and_modify reads the render list's files and writes their mirrors,
\* all relative to the working directory; in the build directory the render
\* list is empty and nothing is read
BuildRead(t) ==
    /\ builds[t].phase = "started"
    /\ builds' = [builds EXCEPT ![t] =
                    [phase |-> "read", read |-> srcv, where |-> workdir]]
    /\ mirv' = IF workdir = "root" THEN srcv ELSE mirv
    /\ UNCHANGED <<main, obs, queue, srcv, snap, seenv, server, workdir, outv,
                   watched,
                   planVars, execVars, buildVars>>

\* build_all returns to thread t: the pages of the files read are written
\* below the working directory's "_build"
BuildEnd(t) ==
    /\ builds[t].phase = "read"
    /\ builds' = [builds EXCEPT ![t] = NoBuild]
    /\ outv' = IF builds[t].where = "root" THEN builds[t].read ELSE outv
    /\ IF t = "main"
       THEN main' = "setup" /\ obs' = obs
       ELSE obs' = "refresh" /\ main' = main
    /\ UNCHANGED <<queue, srcv, snap, seenv, mirv, server, workdir, watched,
                   planVars, execVars, buildVars>>

\* build_all raises in thread t (the renderer exits non-zero): in the main
\* thread watch_and_serve ends, in the observer thread the exception leaves
\* ChangeHandler.handle and the dispatching thread ends
BuildRaise(t) ==
    /\ builds[t].phase = "read"
    /\ builds' = [builds EXCEPT ![t] = NoBuild]
    /\ IF t = "main"
       THEN main' = "exited" /\ obs' = obs
       ELSE obs' = "dead" /\ main' = main
    /\ UNCHANGED <<queue, srcv, snap, seenv, mirv, server, workdir, outv,
                   watched,
                   planVars, execVars, buildVars>>

\* line 687: the thread that runs serve() is started
StartServer ==
    /\ main = "setup"
    /\ main' = "reloader"
    /\ server' = "started"
    /\ UNCHANGED <<obs, queue, builds, srcv, snap, seenv, mirv, workdir, outv,
                   watched,
                   planVars, execVars, buildVars>>

\* lines 662-665: serve() changes the working directory and serves
ServeChdir ==
    /\ server = "started"
    /\ server' = "serving"
    /\ workdir' = "build"
    /\ UNCHANGED <<main, obs, queue, builds, srcv, snap, seenv, mirv, outv,
                   watched,
                   planVars, execVars, buildVars>>

\* line 659: the port is taken, the constructor raises and the thread ends
ServeFail ==
    /\ server = "started"
    /\ server' = "failed"
    /\ UNCHANGED <<main, obs, queue, builds, srcv, snap, seenv, mirv, workdir, outv,
                   watched,
                   planVars, execVars, buildVars>>

\* what a poll of the watched (relative) directories finds
Seen == IF workdir = "root" THEN <<"root", srcv>> ELSE <<"build", mirv>>

\* line 675: sorted(set(render_files) | set(include_map.keys()))
files_to_watch(included_by) == Range(render_files) \cup DOMAIN included_by

\* lines 691-694: the parent of every file to watch, and '.'; each watch is
\* scheduled with recursive=False and reports the directory's own entries
watched_dirs(included_by) ==
    {DirOf(f) : f \in files_to_watch(included_by)} \cup {ProjectRoot}

\* an observer started while the initial build still runs
StartObserverEarly ==
    /\ main = "building"
    /\ obs = "off"
    /\ obs' = "idle"
    /\ snap' = Seen
    /\ watched' = watched_dirs(imap.included_by)
    /\ UNCHANGED <<main, queue, builds, srcv, seenv, mirv, server, workdir, outv,
                   planVars, execVars, buildVars>>

\* lines 688-695: after the initial build the handler is scheduled and the
\* observer started; the emitters take their first snapshot
StartObserver ==
    /\ main = "reloader"
    /\ main' = "sleeping"
    /\ obs' = "idle"
    /\ snap' = Seen
    /\ watched' = watched_dirs(imap.included_by)
    /\ UNCHANGED <<queue, builds, srcv, seenv, mirv, server, workdir, outv,
                   planVars, execVars, buildVars>>

\* the user saves a source file
Change ==
    /\ main \in {"building", "setup", "reloader", "sleeping"}
    /\ srcv < MaxChanges
    /\ srcv' = srcv + 1
    /\ UNCHANGED <<main, obs, queue, builds, snap, seenv, mirv, server, workdir, outv,
                   watched,
                   planVars, execVars, buildVars>>

\* an emitter finds a .qmd file differing from its snapshot and reports it
Poll ==
    /\ obs # "off"
    /\ snap # Seen
    /\ Len(queue) < MaxQueue
    /\ queue' = QueuePut(queue, SourceEvent)
    /\ snap' = Seen
    /\ seenv' = IF workdir = "root" THEN srcv ELSE seenv
    /\ UNCHANGED <<main, obs, builds, srcv, mirv, server, workdir, outv,
                   watched,
                   planVars, execVars, buildVars>>

\* an emitter reports a directory event
PollDir ==
    /\ obs # "off"
    /\ Len(queue) < MaxQueue
    /\ queue' = QueuePut(queue, DirEvent)
    /\ UNCHANGED <<main, obs, builds, srcv, snap, seenv, mirv, server, workdir, outv,
                   watched,
                   planVars, execVars, buildVars>>

\* the observer thread takes an event and calls the handler (lines 641-654):
\* a qualifying event calls build_all in this thread
Dispatch ==
    /\ obs = "idle"
    /\ queue # <<>>
    /\ queue' = Tail(queue)
    /\ IF Qualifies(Head(queue))
       THEN obs' = "building" /\ BuildBegin("observer")
       ELSE obs' = obs /\ builds' = builds
    /\ UNCHANGED <<main, srcv, snap, seenv, mirv, server, workdir, outv,
                   watched,
                   planVars, execVars, buildVars>>

\* line 645: refresher.refresh(), and the handler returns
Refresh ==
    /\ obs = "refresh"
    /\ obs' = "idle"
    /\ UNCHANGED <<main, queue, builds, srcv, snap, seenv, mirv, server, workdir, outv,
                   watched,
                   planVars, execVars, buildVars>>

(***************************************************************************)
(* The code cache: execute_code_blocks.                                    *)
(* A code text is one of Codes; the engine is deterministic: running a     *)
(* code text in a working directory (the directory of the file, line 136)  *)
(* either succeeds ("ok"), raises a Python exception ("error", which       *)
(* allow_errors=True records in the cell and runs on) or exceeds the       *)
(* timeout ("hang", which makes ep.preprocess raise).                      *)
(***************************************************************************)
MaxBlocks == 2      \* code blocks in one file
MaxCalls == 2       \* calls of execute_code_blocks in one behaviour

Codes == {1, 2}
CodeSeqs == SeqsUpTo(Codes, MaxBlocks) \ {<<>>}
Behaviours == {"ok", "error", "hang"}

\* the files that carry code blocks, in two directories
ExecSrcs == {<<ProjectRoot, 1>>, <<SubDir, 1>>}

\* hashlib.md5(x).hexdigest(): collision-free, a digest names its input
md5(x) == <<"md5", x>>

\* "".join(md5s): the digests have one fixed width, so the concatenation
\* determines the sequence
JoinDigests(md5s) == md5s

\* repl_code: the (code, md5) pairs of a file's blocks, in source order
Cells(codes) == [i \in 1..Len(codes) |-> <<codes[i], md5(codes[i])>>]

\* a key made of the last block's digest alone (a key per block)
nb_hash_last_block(cells) == md5(JoinDigests(<<cells[Len(cells)][2]>>))

\* lines 125-127: the aggregate key of a file's cells
nb_hash(cells) == md5(JoinDigests([i \in 1..Len(cells) |-> cells[i][2]]))

\* the working directories of the engine
ExecDirs == {DirOf(src) : src \in ExecSrcs}

\* the first block at which ep.preprocess raises, 0 when it returns
RaisesAt(codes, cwd) ==
    IF \E k \in 1..Len(codes) : engine[<<codes[k], cwd>>] = "hang"
    THEN CHOOSE k \in 1..Len(codes) :
             /\ engine[<<codes[k], cwd>>] = "hang"
             /\ \A j \in 1..(k - 1) : engine[<<codes[j], cwd>>] # "hang"
    ELSE 0

\* the first block that fails in any way (exception or timeout), 0 if none
FailsAt(codes, cwd) ==
    IF \E k \in 1..Len(codes) : engine[<<codes[k], cwd>>] # "ok"
    THEN CHOOSE k \in 1..Len(codes) :
             /\ engine[<<codes[k], cwd>>] # "ok"
             /\ \A j \in 1..(k - 1) : engine[<<codes[j], cwd>>] = "ok"
    ELSE 0

\* the outputs of cell k after a run that returned: what the cell printed,
\* which depends on every block before it and on the working directory, or
\* the error output of the cell's own exception
CellOutput(codes, cwd, k) ==
    IF engine[<<codes[k], cwd>>] = "error"
    THEN [output_type |-> "error", ename |-> "Exception", cell |-> k]
    ELSE [output_type |-> "stream", text |-> <<"stdout", SubSeq(codes, 1, k), cwd>>]

EngineError == [output_type |-> "error", ename |-> "CellTimeoutError", cell |-> 0]
PreviousFailed == [output_type |-> "stream", text |-> <<"previous cell failed to execute">>]

\* lines 132-155: the notebook after ep.preprocess, as a sequence of cell
\* outputs; when preprocess raised, the error goes to cells[0] and every
\* other cell is marked
Execute(codes, cwd) ==
    IF RaisesAt(codes, cwd) = 0
    THEN [k \in 1..Len(codes) |-> CellOutput(codes, cwd, k)]
    ELSE [k \in 1..Len(codes) |-> IF k = 1 THEN EngineError ELSE PreviousFailed]

\* outputs_to_html of one cell's output
outputs_to_html(out) ==
    IF out.output_type = "stream"
    THEN <<"pre", out.text>>
    ELSE <<"pre style='color:red;'", out.ename, out.cell>>

\* a lookup that never finds the notebook
CachedNever(c, key) == FALSE

\* the notebook holds the output of a failed execution
FailedNotebook(nb) == \E k \in 1..Len(nb) : nb[k].output_type = "error"

\* a lookup that does not serve the notebook of a failed execution
CachedUnlessFailed(c, key) == key \in DOMAIN c /\ ~FailedNotebook(c[key])

\* nb_path.exists()
Cached(c, key) == key \in DOMAIN c

\* a run whose notebook is not written
WriteNotebookNever(c, key, nb) == c

\* a write that only a run that returned reaches (the write inside the try)
WriteNotebookOnSuccess(c, key, nb) ==
    IF nb[1] = EngineError THEN c ELSE Put(c, key, nb)

\* nbformat.write(nb, nb_path), line 156
WriteNotebook(c, key, nb) == Put(c, key, nb)

\* a cache file per source file and key
nb_path_by_source(src, cells) == <<src, nb_hash(cells)>>

\* line 128: nb_path = NOTEBOOK_CACHE_DIR / f"{nb_hash}.ipynb", the file of
\* the cells of src: named by the aggregate key and by nothing else
nb_path(src, cells) == nb_hash(cells)

\* lines 124-159: the body of the for loop for one file
ExecFile(st, src, cells) ==
    LET codes == [i \in 1..Len(cells) |-> cells[i][1]]
        key == nb_path(src, cells)
        hit == Cached(st.cache, key)
        nb == IF hit THEN st.cache[key] ELSE Execute(codes, DirOf(src))
        out == [e \in {src} \X (1..Len(nb)) |-> outputs_to_html(nb[e[2]])]
    IN IF cells = <<>>
       THEN st
       ELSE [cache |-> IF hit THEN st.cache ELSE WriteNotebook(st.cache, key, nb),
             invoked |-> IF hit THEN st.invoked
                         ELSE Append(st.invoked, [src |-> src, codes |-> codes]),
             hits |-> IF hit THEN st.hits \cup {src} ELSE st.hits,
             results |-> st.results @@ out]

RECURSIVE ExecLoop(_, _, _)
\* for src, cells in blocks.items(), from item i on
ExecLoop(st, blocks, i) ==
    IF i > Len(blocks) THEN st
    ELSE ExecLoop(ExecFile(st, blocks[i][1], Cells(blocks[i][2])), blocks, i + 1)

\* execute_code_blocks(blocks): blocks is the dict in its iteration order,
\* a sequence of <<src, codes>>
execute_code_blocks(c, blocks) ==
    ExecLoop([cache |-> c, invoked |-> <<>>, hits |-> {}, results |-> EmptyDict],
             blocks, 1)

\* the dicts mirror_and_modify can hand over: one or two files, each with
\* at least one block
BlockDicts ==
    {b \in SeqsUpTo(ExecSrcs \X CodeSeqs, 2) :
        /\ Len(b) >= 1
        /\ \A i, j \in 1..Len(b) : i # j => b[i][1] # b[j][1]}

NoCall == [n |-> 0, blocks |-> <<>>, prev_blocks |-> <<>>, ran_before |-> {},
           invoked |-> <<>>, hits |-> {}, results |-> EmptyDict]

\* the code cache is not part of this specification
ExecIdle ==
    /\ engine = [e \in Codes \X ExecDirs |-> "ok"]
    /\ cache = EmptyDict
    /\ ran = {}
    /\ last = NoCall

PlanIdle ==
    /\ files = {}
    /\ includes = [p \in Paths |-> <<>>]
    /\ render_files = <<>>
    /\ pc = "idle"
    /\ imap = MapInit
    /\ itree = [stack |-> <<>>, visited |-> {}, tree |-> EmptyDict,
                root_dirs |-> EmptyDict, log |-> <<>>]
    /\ iorder = OrderInit
    /\ anchors = EmptyDict

InitExec ==
    /\ engine \in [Codes \X ExecDirs -> Behaviours]
    /\ cache = EmptyDict
    /\ ran = {}
    /\ last = NoCall
    /\ PlanIdle
    /\ WatchIdle
    /\ BuildIdle

\* one call of execute_code_blocks (line 609)
ExecuteCodeBlocks ==
    \E blocks \in BlockDicts :
        LET r == execute_code_blocks(cache, blocks)
        IN /\ last.n < MaxCalls
           /\ cache' = r.cache
           /\ ran' = ran \cup {blocks[i][2] : i \in 1..Len(blocks)}
           /\ last' = [n |-> last.n + 1, blocks |-> blocks,
                       prev_blocks |-> last.blocks, ran_before |-> ran,
                       invoked |-> r.invoked, hits |-> r.hits,
                       results |-> r.results]
           /\ UNCHANGED <<engine, planVars, watchVars, buildVars>>

NextExec == ExecuteCodeBlocks

SpecExec == InitExec /\ [][NextExec]_vars

\* watch_and_serve, from its first line
InitWatch ==
    /\ main = "start"
    /\ obs = "off"
    /\ queue = <<>>
    /\ builds = [t \in Threads |-> NoBuild]
    /\ srcv = 0
    /\ snap = <<"root", 0>>
    /\ seenv = 0
    /\ mirv = 0
    /\ server = "off"
    /\ workdir = "root"
    /\ outv = 0
    /\ watched = {}
    /\ PlanIdle
    /\ ExecIdle
    /\ BuildIdle

ObserverSteps ==
    \/ Dispatch
    \/ BuildRead("observer")
    \/ BuildEnd("observer")
    \/ BuildRaise("observer")
    \/ Refresh

NextWatch ==
    \/ InitialBuild
    \/ BuildRead("main")
    \/ BuildEnd("main")
    \/ BuildRaise("main")
    \/ StartServer
    \/ ServeChdir
    \/ ServeFail
    \/ StartObserver
    \/ Change
    \/ Poll
    \/ PollDir
    \/ ObserverSteps

\* the threads run: a thread that can take a step takes one
SpecWatch ==
    /\ InitWatch
    /\ [][NextWatch]_vars
    /\ WF_vars(ObserverSteps)
    /\ WF_vars(Poll)
    /\ WF_vars(InitialBuild \/ BuildRead("main") \/ BuildEnd("main")
                \/ BuildRaise("main") \/ StartServer \/ StartObserver)
    /\ WF_vars(ServeChdir \/ ServeFail)

(***************************************************************************)
(* The analysis and the planner, as build_all runs them (lines 576-584):   *)
(* build_include_map, build_include_tree, all_files, build_order.          *)
(***************************************************************************)
\* every project within the bounds: the files on disk, their directives,
\* the declared roots (distinct, not necessarily on disk)
InitProject ==
    /\ files \in SUBSET Paths
    /\ \E el \in SeqsUpTo(files \X Directives, MaxEdges) :
           includes = [p \in Paths |-> SelectIncs(el, p)]
    /\ render_files \in {r \in SeqsUpTo(Paths, MaxRoots) :
                            /\ Len(r) >= 1
                            /\ \A i, j \in 1..Len(r) : i # j => r[i] # r[j]}

Init ==
    /\ InitProject
    /\ pc = "map"
    /\ imap = MapInit
    /\ itree = TreeInit
    /\ iorder = OrderInit
    /\ anchors = EmptyDict
    /\ ExecIdle
    /\ WatchIdle
    /\ BuildIdle

RECURSIVE RunMap(_)
RunMap(s) == IF MapDone(s) THEN s ELSE RunMap(MapStep(s))

RECURSIVE RunTree(_)
RunTree(s) == IF TreeDone(s) THEN s ELSE RunTree(TreeStep(s))

RECURSIVE RunOrder(_, _)
RunOrder(tree, s) == IF OrderDone(s) THEN s ELSE RunOrder(tree, OrderStep(tree, s))

\* the functions as build_all calls them, each run to its return
build_include_map == RunMap(MapInit)
build_include_tree == RunTree(TreeInit)
build_order(tree) == RunOrder(tree, OrderInit)

\* line 578
AnalyzeMap ==
    /\ pc = "map"
    /\ imap' = build_include_map
    /\ pc' = "tree"
    /\ UNCHANGED <<files, includes, render_files, anchors, itree, iorder, execVars, watchVars, buildVars>>

\* line 579
AnalyzeTree ==
    /\ pc = "tree"
    /\ itree' = build_include_tree
    /\ pc' = "anchors"
    /\ UNCHANGED <<files, includes, render_files, anchors, imap, iorder, execVars, watchVars, buildVars>>

\* line 580
CollectAnchors ==
    /\ pc = "anchors"
    /\ anchors' = collect_anchors(imap.included_by)
    /\ pc' = "order"
    /\ UNCHANGED <<files, includes, render_files, imap, itree, iorder, execVars, watchVars, buildVars>>

\* line 584
PlanOrder ==
    /\ pc = "order"
    /\ iorder' = build_order(itree.tree)
    /\ pc' = "planned"
    /\ UNCHANGED <<files, includes, render_files, anchors, imap, itree, execVars, watchVars, buildVars>>

Next ==
    \/ AnalyzeMap
    \/ AnalyzeTree
    \/ CollectAnchors
    \/ PlanOrder

Spec == Init /\ [][Next]_vars

(***************************************************************************)
(* watch_and_serve, lines 671-694, over projects that have a directory     *)
(* below the subdirectory: the analysis of the initial build_all, then the *)
(* directories the watches are scheduled on.                               *)
(***************************************************************************)
DeepDir == <<"d", "d">>
DeepPaths == Paths \cup ({DeepDir} \X Names)

InitDirs ==
    /\ files \in SUBSET DeepPaths
    /\ \E el \in SeqsUpTo(files \X Directives, MaxEdges) :
           includes = [p \in DeepPaths |-> SelectIncs(el, p)]
    /\ render_files \in {r \in SeqsUpTo(Paths, MaxRoots) :
                            /\ Len(r) >= 1
                            /\ \A i, j \in 1..Len(r) : i # j => r[i] # r[j]}
    /\ pc = "map"
    /\ imap = MapInit
    /\ itree = TreeInit
    /\ iorder = OrderInit
    /\ anchors = EmptyDict
    /\ ExecIdle
    /\ WatchIdle
    /\ BuildIdle

\* lines 673-694: the reverse map is computed again from the same sources,
\* and a watch is scheduled on every directory of watched_dirs
ScheduleWatches ==
    /\ pc = "planned"
    /\ pc' = "watching"
    /\ watched' = watched_dirs(build_include_map.included_by)
    /\ UNCHANGED <<files, includes, render_files, anchors, imap, itree, iorder,
                   main, obs, queue, builds, srcv, snap, seenv, mirv, server, workdir, outv,
                   execVars, buildVars>>

NextDirs ==
    \/ AnalyzeMap
    \/ AnalyzeTree
    \/ CollectAnchors
    \/ PlanOrder
    \/ ScheduleWatches

SpecDirs == InitDirs /\ [][NextDirs]_vars

(***************************************************************************)
(* build_all.  A page is a sequence of tokens: <<"text", f, v>> is the     *)
(* rendered text of version v of file f, <<"include", t>> the placeholder  *)
(* mirror_and_modify puts for a directive (t the file whose page it points *)
(* to), <<"begin", t>> and <<"end", t>> the comments postprocess_html puts *)
(* around the page it splices in.  The build directory is never emptied.   *)
(***************************************************************************)
MaxBuilds == 2      \* calls of build_all in one behaviour
MaxEdits == 1       \* source edits in one behaviour

\* target_src.relative_to(project_root) raises for a path above the root
OutsideProject(p) == DirOf(p) # <<>> /\ DirOf(p)[1] = ".."

\* a placeholder resolved like the edge of the tree: parent(cur) first
MirrorResolveParentFirst(src, root_dir, inc) ==
    IF Exists(Join(DirOf(src), inc)) THEN Join(DirOf(src), inc)
    ELSE IF Exists(Join(root_dir, inc)) THEN Join(root_dir, inc)
    ELSE Join(Parent(root_dir), inc)

\* mirror_and_modify.repl, lines 357-362: the file a placeholder points to
MirrorResolve(src, root_dir, inc) ==
    IF Exists(Join(root_dir, inc)) THEN Join(root_dir, inc)
    ELSE IF Exists(Join(DirOf(src), inc)) THEN Join(DirOf(src), inc)
    ELSE Join(Parent(root_dir), inc)

\* line 353: roots.get(file, src.parent)
RootDirOf(roots, f) == IF f \in DOMAIN roots THEN roots[f] ELSE DirOf(f)

\* the targets of the placeholders of the mirror of f, in directive order
Placeholders(roots, f) ==
    [i \in 1..Len(FindIncludes(f)) |->
        MirrorResolve(f, RootDirOf(roots, f), FindIncludes(f)[i])]

\* mirror_and_modify raises ValueError at line 363 while it is at file f
MirrorRaisesAt(roots, f) ==
    \E i \in 1..Len(FindIncludes(f)) : OutsideProject(Placeholders(roots, f)[i])

\* mirror_and_modify raises ValueError for the set of files fs
MirrorRaises(roots, fs) == \E f \in fs : MirrorRaisesAt(roots, f)

\* the sets of files mirror_and_modify can have written (line 382) when it
\* returns or raises: fs is a Python set and is walked in no defined order,
\* so any of the files that do not raise can come before the one that does
Mirrored(roots, fs) ==
    IF MirrorRaises(roots, fs)
    THEN SUBSET {f \in fs : ~MirrorRaisesAt(roots, f)}
    ELSE {fs}

\* mirror_and_modify.repl_code, lines 371-381: the code blocks of source
\* file f in source order; every source has one block, the unedited sources
\* of one directory have the same code text (1 in the project root, 2 in d)
\* and an edit of the source replaces the text of its block by the other one
CodeBlocksOf(f) == <<((Len(DirOf(f)) + version[f]) % 2) + 1>>

\* render_file: the page the renderer makes of the mirror of f: its text,
\* the placeholder of every include directive and of every code block
Render(roots, f) ==
    <<<<"text", f, version[f]>>>>
    \o [i \in 1..Len(FindIncludes(f)) |-> <<"include", Placeholders(roots, f)[i]>>]
    \o [k \in 1..Len(CodeBlocksOf(f)) |-> <<"code", f, k>>]

\* a renderer whose exit status is not looked at
RendererFailsNever(f) == FALSE

\* subprocess.run(..., check=True) raises, lines 412-415: the mirror is not
\* there or the renderer does not accept it
RendererFails(f) == ~Exists(f) \/ f \in broken

RECURSIVE Splice(_, _, _)
\* postprocess_html, lines 498-518: from token i on, a placeholder is
\* replaced by the page that exists at its target, or removed
Splice(store, page, i) ==
    IF i > Len(page) THEN <<>>
    ELSE LET tok == page[i]
             here == IF tok[1] # "include" THEN <<tok>>
                     ELSE IF tok[2] \in DOMAIN store
                          THEN <<<<"begin", tok[2]>>>> \o store[tok[2]]
                               \o <<<<"end", tok[2]>>>>
                          ELSE <<>>
         IN here \o Splice(store, page, i + 1)

postprocess_html(store, page) == Splice(store, page, 1)

\* what postprocess_html finds at target t while it is at file order[i]:
\* nothing, the page of the file itself as the renderer just left it, a page
\* rendered and postprocessed earlier in this loop, or a page that was in
\* the build directory before this loop
SpliceKind(store, order, i, t) ==
    IF t \notin DOMAIN store THEN "absent"
    ELSE IF t = order[i] THEN "unprocessed"
    ELSE IF t \in Range(SubSeq(order, 1, i - 1)) THEN "fresh"
    ELSE "stale"

RECURSIVE RenderLoop(_, _, _, _, _)
\* lines 585-589: for f in order, render_file writes the page of f and
\* postprocess_html reads it back, splices and writes it; splices is the
\* log of what was found at the placeholders
RenderLoop(store, roots, order, i, splices) ==
    IF i > Len(order)
    THEN [store |-> store, raised |-> FALSE, rendered |-> order, splices |-> splices]
    ELSE IF RendererFails(order[i])
    THEN [store |-> store, raised |-> TRUE, rendered |-> SubSeq(order, 1, i - 1),
          splices |-> splices]
    ELSE LET f == order[i]
             raw == Put(store, f, Render(roots, f))
             found == {<<f, Placeholders(roots, f)[k],
                         SpliceKind(raw, order, i, Placeholders(roots, f)[k])>> :
                          k \in 1..Len(FindIncludes(f))}
         IN RenderLoop(Put(raw, f, postprocess_html(raw, raw[f])),
                       roots, order, i + 1, splices \cup found)

\* build_all, lines 576-589, on the build directory store
BuildResult(store) ==
    LET t == build_include_tree
        fs == all_files(t.tree)
        order == build_order(t.tree).order
    IN IF MirrorRaises(t.root_dirs, fs)
       THEN [store |-> store, raised |-> TRUE, rendered |-> <<>>, splices |-> {}]
       ELSE RenderLoop(store, t.root_dirs, order, 1, {})

\* a destination that is the file itself (replace_refs, line 243, writes
\* the path it read)
DestInPlace(f) == <<"source", f>>

\* BUILD_DIR / file, lines 348 and 587: the place under _build that has the
\* project-relative path of the file; a path that is not relative to the
\* project is absolute and the join gives that path itself
Dest(f) == IF OutsideProject(f) THEN <<"source", f>> ELSE <<"_build", f>>

\* the places build_all wrote to: the mirror of every mirrored file (line
\* 382) and the page of every rendered file (lines 587-589)
Written(mirrored, rendered) ==
    {<<"qmd", Dest(f)>> : f \in mirrored} \cup {<<"html", Dest(f)>> : f \in Range(rendered)}

RECURSIVE InOrder(_)
\* the files of S one after the other.  mirror_and_modify walks a Python
\* set, whose order is not defined; the order decides which of two files
\* with the same code runs and which is served from the cache, and as such
\* files are in one directory here, the outputs are the same in any order
InOrder(S) ==
    IF S = {} THEN <<>>
    ELSE LET f == CHOOSE g \in S : TRUE IN <<f>> \o InOrder(S \ {f})

\* the dict mirror_and_modify returns: the files in the order they were
\* mirrored, each with its code blocks
CodeDict(ord) == [i \in 1..Len(ord) |-> <<ord[i], CodeBlocksOf(ord[i])>>]

\* add_navigation, lines 470-493: the menu goes in front of the body
AddNavigation(page) == <<<<"nav">>>> \o page

\* lines 591-607: the page of every declared root that exists gets the menu
InjectNavigation(store) ==
    [f \in DOMAIN store |->
        IF f \in Range(render_files) THEN AddNavigation(store[f]) ELSE store[f]]

\* substitute_code_placeholders, lines 538-561: every placeholder of the
\* page is replaced by outputs.get((src, idx), ""), src and idx being the
\* placeholder's own attributes; f is the file whose page it is
Substitute(page, outputs, f) ==
    [i \in 1..Len(page) |->
        IF page[i][1] = "code"
        THEN <<"out", page[i][2], page[i][3],
               IF <<page[i][2], page[i][3]>> \in DOMAIN outputs
               THEN outputs[<<page[i][2], page[i][3]>>] ELSE <<>>>>
        ELSE page[i]]

\* lines 610-613: for f in files, if the page exists
SubstituteAll(store, fs, outputs) ==
    [f \in DOMAIN store |->
        IF f \in fs THEN Substitute(store[f], outputs, f) ELSE store[f]]

\* one call of build_all
BuildAll ==
    /\ built.n < MaxBuilds
    /\ \E t \in {build_include_tree} :
       \E r \in {BuildResult(pages)} :
       \E m \in Mirrored(t.root_dirs, all_files(t.tree)) :
       \E x \in {IF r.raised THEN [cache |-> cache, results |-> EmptyDict]
                 ELSE execute_code_blocks(cache, CodeDict(InOrder(m)))} :
           /\ pages' = IF r.raised THEN r.store
                       ELSE SubstituteAll(InjectNavigation(r.store), m, x.results)
           /\ cache' = x.cache
           /\ built' = [n |-> built.n + 1, clean |-> ~dirty /\ built.n > 0,
                        raised |-> r.raised, before |-> pages,
                        mirrored |-> m, rendered |-> r.rendered,
                        written |-> Written(m, r.rendered),
                        splices |-> r.splices,
                        finished |-> ~r.raised,
                        outputs |-> x.results]
    /\ dirty' = FALSE
    /\ UNCHANGED <<version, posted, broken, refVars, graphVars, planVars, engine, ran, last, watchVars>>

RECURSIVE Edits(_)
\* the number of edits made to the files of S
Edits(S) ==
    IF S = {} THEN 0
    ELSE LET p == CHOOSE q \in S : TRUE IN version[p] + Edits(S \ {p})

\* the user saves a new text of source file f
Edit ==
    /\ Edits(Paths) < MaxEdits
    /\ \E f \in files :
           version' = [version EXCEPT ![f] = @ + 1]
    /\ dirty' = TRUE
    /\ UNCHANGED <<pages, built, posted, broken, refVars, graphVars, planVars, execVars, watchVars>>

InitBuild ==
    /\ InitProject
    /\ pc = "idle"
    /\ imap = MapInit
    /\ itree = TreeInit
    /\ iorder = OrderInit
    /\ anchors = EmptyDict
    /\ ExecIdle
    /\ WatchIdle
    /\ BuildIdle

NextBuild == BuildAll \/ Edit

SpecBuild == InitBuild /\ [][NextBuild]_vars

\* builds of a project for one of whose sources the renderer exits non-zero
InitFail ==
    /\ InitProject
    /\ pc = "idle"
    /\ imap = MapInit
    /\ itree = TreeInit
    /\ iorder = OrderInit
    /\ anchors = EmptyDict
    /\ ExecIdle
    /\ WatchIdle
    /\ pages = EmptyDict
    /\ version = [p \in Paths |-> 0]
    /\ built = NoBuildYet
    /\ dirty = FALSE
    /\ posted = NoPost
    /\ \E f \in files : broken = {f}
    /\ RefsIdle
    /\ GraphIdle

NextFail == BuildAll

SpecFail == InitFail /\ [][NextFail]_vars

(***************************************************************************)
(* postprocess_html called on its own, on a build directory that holds     *)
(* pages as the renderer left them (placeholders still in them) or as an   *)
(* earlier call of postprocess_html left them.                             *)
(***************************************************************************)
MaxPosts == 2       \* calls of postprocess_html in one behaviour

\* the pages the renderer can have left for p: its text, and at most one
\* placeholder
RenderedPages(p) ==
    {<<<<"text", p, 0>>>>} \cup {<<<<"text", p, 0>>, <<"include", t>>>> : t \in Paths}

\* the build directories: some of the paths have a rendered page
BuildDirs ==
    UNION {{d \in [S -> UNION {RenderedPages(p) : p \in S}] :
               \A p \in S : d[p] \in RenderedPages(p)} : S \in SUBSET Paths}

InitPost ==
    /\ pages \in BuildDirs
    /\ version = [p \in Paths |-> 0]
    /\ built = NoBuildYet
    /\ dirty = FALSE
    /\ posted = NoPost
    /\ broken = {}
    /\ RefsIdle
    /\ GraphIdle
    /\ PlanIdle
    /\ ExecIdle
    /\ WatchIdle

\* postprocess_html(html_path), lines 496-535: the page is read, its
\* placeholders are replaced or removed, and it is written back
PostprocessHtml ==
    /\ posted.n < MaxPosts
    /\ \E f \in DOMAIN pages :
           /\ pages' = Put(pages, f, postprocess_html(pages, pages[f]))
           /\ posted' = [n |-> posted.n + 1, file |-> f]
    /\ UNCHANGED <<version, built, dirty, broken, refVars, graphVars, planVars, execVars, watchVars>>

NextPost == PostprocessHtml

SpecPost == InitPost /\ [][NextPost]_vars

(***************************************************************************)
(* The anchor index by key and the reference resolver: collect_anchors     *)
(* and replace_refs_text.  A text is a sequence of characters; "@" stands  *)
(* for the "@sec:" (or fig, tab) that opens a reference token, "a" and "b" *)
(* for the characters an identifier is made of, " " for any other          *)
(* character.  A key is the identifier of a token or of a declaration.     *)
(* The result of replace_refs_text is a sequence of items: <<"chr", c>> a  *)
(* character left as it was, <<"link", label, file, key>> the markdown     *)
(* link [label](file.html#key).                                            *)
(***************************************************************************)
MaxText == 4        \* characters of the text handed to replace_refs_text
MaxDecls == 2       \* anchor declarations in the sources

IdentChars == {"a", "b"}
Chars == {"@", " "} \cup IdentChars
Texts == SeqsUpTo(Chars, MaxText)

\* the keys the sources declare, the headings' texts, the declaring files
DeclKeys == {<<"a">>, <<"a", "b">>}
Labels == {"L1", "L2"}
DeclFiles == {<<ProjectRoot, 1>>, <<SubDir, 1>>}

\* a declaration {#key} found in a line of file path whose heading is label
Declarations == DeclFiles \X DeclKeys \X Labels

\* a dict that keeps the entry it has (setdefault instead of assignment)
PutIfAbsent(d, k, v) == SetDefault(d, k, v)

\* line 217: anchors[key] = (render_file, text)
PutAnchor(d, k, v) == Put(d, k, v)

RECURSIVE AnchorScan(_, _, _, _)
\* lines 202-217: the declarations ds from the i-th on, in scan order
AnchorScan(ds, i, found, included_by) ==
    IF i > Len(ds) THEN found
    ELSE AnchorScan(ds, i + 1,
                    PutAnchor(found, ds[i][2],
                              <<resolve_render_file(ds[i][1], included_by), ds[i][3]>>),
                    included_by)

\* collect_anchors, with the keys: key -> <<render file, label>>
collect_anchor_keys(ds, included_by) == AnchorScan(ds, 1, EmptyDict, included_by)

RECURSIVE IdentEnd(_, _)
\* [A-Za-z0-9_-]+ is greedy: the last position of the run of identifier
\* characters that starts at i, i - 1 when text[i] is not one
IdentEnd(text, i) ==
    IF i <= Len(text) /\ text[i] \in IdentChars THEN IdentEnd(text, i + 1) ELSE i - 1

\* match.group(0): the token as it is written
Verbatim(key) == <<<<"chr", "@">>>> \o [k \in 1..Len(key) |-> <<"chr", key[k]>>]

\* a replacement that drops a token without anchor
repl_drop(key, found) ==
    IF key \in DOMAIN found
    THEN <<<<"link", found[key][2], found[key][1], key>>>>
    ELSE <<>>

\* replace_refs_text.repl, lines 225-234
repl(key, found) ==
    IF key \in DOMAIN found
    THEN <<<<"link", found[key][2], found[key][1], key>>>>
    ELSE Verbatim(key)

RECURSIVE SubRefs(_, _, _)
\* ref_pattern.sub(repl, text), from position i on: the leftmost match, then
\* on after its end
SubRefs(text, i, found) ==
    IF i > Len(text) THEN <<>>
    ELSE LET e == IdentEnd(text, i + 1)
         IN IF text[i] = "@" /\ e > i
            THEN repl(SubSeq(text, i + 1, e), found) \o SubRefs(text, e + 1, found)
            ELSE <<<<"chr", text[i]>>>> \o SubRefs(text, i + 1, found)

replace_refs_text(text, found) == SubRefs(text, 1, found)

InitRefs ==
    /\ decls \in SeqsUpTo(Declarations, MaxDecls)
    /\ refindex = EmptyDict
    /\ \E t \in Texts : doc = [stage |-> "start", text |-> t, out |-> <<>>]
    /\ PagesIdle
    /\ GraphIdle
    /\ PlanIdle
    /\ ExecIdle
    /\ WatchIdle

\* line 580: anchors = collect_anchors(render_files, include_map)
CollectAnchorKeys ==
    /\ doc.stage = "start"
    /\ refindex' = collect_anchor_keys(decls, imap.included_by)
    /\ doc' = [doc EXCEPT !.stage = "indexed"]
    /\ UNCHANGED <<decls, pages, version, built, dirty, posted, broken, graphVars, planVars, execVars, watchVars>>

\* line 351: text = replace_refs_text(text, anchors, dest.parent)
ReplaceRefsText ==
    /\ doc.stage = "indexed"
    /\ doc' = [doc EXCEPT !.stage = "done", !.out = replace_refs_text(doc.text, refindex)]
    /\ UNCHANGED <<decls, refindex, pages, version, built, dirty, posted, broken, graphVars, planVars, execVars, watchVars>>

NextRefs == CollectAnchorKeys \/ ReplaceRefsText

SpecRefs == InitRefs /\ [][NextRefs]_vars

(***************************************************************************)
(* yaml_graph.py: load_yaml.  A graph description is the mapping that      *)
(* yaml.safe_load returns: node name -> the parents and the children the   *)
(* node lists, in document order.                                          *)
(***************************************************************************)
MaxDeclared == 2

\* the node names a description can use
NodeNames == {"a", "b", "c"}

\* what a description says of one node
Infos == [parents : SUBSET NodeNames, children : SUBSET NodeNames]

\* the sequences of distinct names of at most MaxDeclared names
DeclaredOrders ==
    {o \in SeqsUpTo(NodeNames, MaxDeclared) : \A i, j \in 1..Len(o) : o[i] = o[j] => i = j}

\* class Node: text defaults to the name, subgraph to None
Node(text, parents, children) ==
    [text |-> text, parents |-> parents, children |-> children, subgraph |-> "None"]

\* lines 37-44: one Node per entry of the description
DeclaredNodes(order, data) ==
    [n \in Range(order) |-> Node(n, data[n].parents, data[n].children)]

\* lines 48-49 and 52-53: a name that is not a node yet becomes an empty node
WithNode(g, n) == IF n \in DOMAIN g THEN g ELSE Put(g, n, Node(n, {}, {}))

\* lines 48-50: graph[child].parents.add(name)
AddParent(g, child, name) ==
    [WithNode(g, child) EXCEPT ![child].parents = @ \cup {name}]

\* the parent is left as it is
AddChildNever(g, parent, name) == g

\* lines 52-54: graph[parent].children.add(name)
AddChild(g, parent, name) ==
    [WithNode(g, parent) EXCEPT ![parent].children = @ \cup {name}]

\* line 47: for child in list(node.children)
RECURSIVE LinkChildren(_, _, _)
LinkChildren(g, name, todo) ==
    IF todo = {} THEN g
    ELSE LET child == CHOOSE c \in todo : TRUE
         IN LinkChildren(AddParent(g, child, name), name, todo \ {child})

\* line 51: for parent in list(node.parents)
RECURSIVE LinkParents(_, _, _)
LinkParents(g, name, todo) ==
    IF todo = {} THEN g
    ELSE LET parent == CHOOSE q \in todo : TRUE
         IN LinkParents(AddChild(g, parent, name), name, todo \ {parent})

\* line 46: for name, node in list(graph.items()); the nodes of the
\* description in document order, each with the sets it has when its turn comes
RECURSIVE Symmetrize(_, _, _)
Symmetrize(g, order, i) ==
    IF i > Len(order) THEN g
    ELSE LET name == order[i]
             g1 == LinkChildren(g, name, g[name].children)
             g2 == LinkParents(g1, name, g1[name].parents)
         IN Symmetrize(g2, order, i + 1)

load_yaml(order, data) == Symmetrize(DeclaredNodes(order, data), order, 1)

InitGraph ==
    /\ \E o \in DeclaredOrders : \E d \in [Range(o) -> Infos] :
           graph = [stage |-> "start", order |-> o, data |-> d, nodes |-> EmptyDict]
    /\ PagesIdle
    /\ RefsIdle
    /\ PlanIdle
    /\ ExecIdle
    /\ WatchIdle

\* graph = load_yaml(path)
LoadYaml ==
    /\ graph.stage = "start"
    /\ graph' = [graph EXCEPT !.stage = "loaded", !.nodes = load_yaml(graph.order, graph.data)]
    /\ UNCHANGED <<pages, version, built, dirty, posted, broken, refVars, planVars, execVars, watchVars>>

NextGraph == LoadYaml

SpecGraph == InitGraph /\ [][NextGraph]_vars

(***************************************************************************)
(* The same three functions, one loop iteration (one call or return of     *)
(* visit) per step.                                                        *)
(***************************************************************************)
MapLoop ==
    /\ pc = "map"
    /\ ~MapDone(imap)
    /\ imap' = MapStep(imap)
    /\ UNCHANGED <<files, includes, render_files, anchors, pc, itree, iorder, execVars, watchVars, buildVars>>

MapReturn ==
    /\ pc = "map"
    /\ MapDone(imap)
    /\ pc' = "tree"
    /\ UNCHANGED <<files, includes, render_files, anchors, imap, itree, iorder, execVars, watchVars, buildVars>>

TreeLoop ==
    /\ pc = "tree"
    /\ ~TreeDone(itree)
    /\ itree' = TreeStep(itree)
    /\ UNCHANGED <<files, includes, render_files, anchors, pc, imap, iorder, execVars, watchVars, buildVars>>

TreeReturn ==
    /\ pc = "tree"
    /\ TreeDone(itree)
    /\ pc' = "anchors"
    /\ UNCHANGED <<files, includes, render_files, anchors, imap, itree, iorder, execVars, watchVars, buildVars>>

OrderLoop ==
    /\ pc = "order"
    /\ ~OrderDone(iorder)
    /\ iorder' = OrderStep(itree.tree, iorder)
    /\ UNCHANGED <<files, includes, render_files, anchors, pc, imap, itree, execVars, watchVars, buildVars>>

OrderReturn ==
    /\ pc = "order"
    /\ OrderDone(iorder)
    /\ pc' = "planned"
    /\ UNCHANGED <<files, includes, render_files, anchors, imap, itree, iorder, execVars, watchVars, buildVars>>

NextSteps ==
    \/ MapLoop
    \/ MapReturn
    \/ TreeLoop
    \/ TreeReturn
    \/ CollectAnchors
    \/ OrderLoop
    \/ OrderReturn

\* the specification with the scheduling of a sequential program: a step
\* that can be taken is taken
SpecSteps == Init /\ [][NextSteps]_vars /\ WF_vars(NextSteps)

(***************************************************************************)
(* Properties of the analysis and the planner.                             *)
(***************************************************************************)
NoDup(s) == \A i, j \in 1..Len(s) : i # j => s[i] # s[j]

Index(s, x) == CHOOSE i \in 1..Len(s) : s[i] = x

RECURSIVE Closure(_, _)
\* the files reachable from the set S along the edges of tree, S included
Closure(tree, S) ==
    LET S2 == S \cup UNION {Range(TreeGet(tree, f)) : f \in S}
    IN IF S2 = S THEN S ELSE Closure(tree, S2)

\* the edge f -> g lies on a cycle of tree: f is reachable from g
OnCycle(tree, f, g) == f \in Closure(tree, {g})

Planned == pc = "planned"

\* the edges f -> g of the forward graph with both ends in the order
OrderedEdges ==
    {e \in Range(iorder.order) \X Range(iorder.order) :
        e[2] \in Range(TreeGet(itree.tree, e[1]))}

\* C1 as claimed: in the render order every included file comes strictly
\* before every file that includes it, for every edge of the forward graph.
C1_IncludedBeforeIncluder ==
    Planned =>
        \A e \in OrderedEdges :
            Index(iorder.order, e[2]) < Index(iorder.order, e[1])

\* C1 amended: in the render order every included file comes strictly before
\* every file that includes it, for every edge of the forward graph that does
\* not lie on an include cycle.
C1_IncludedBeforeIncluderAcyclic ==
    Planned =>
        \A e \in OrderedEdges :
            ~OnCycle(itree.tree, e[1], e[2]) =>
                Index(iorder.order, e[2]) < Index(iorder.order, e[1])

\* a plan of a chain of two edges, neither on a cycle
C1_Witness ==
    /\ Planned
    /\ \E e1, e2 \in OrderedEdges :
           /\ e1[2] = e2[1]
           /\ ~OnCycle(itree.tree, e1[1], e1[2])
           /\ ~OnCycle(itree.tree, e2[1], e2[2])

\* C2 as claimed: the analysis does not return normally when a directive of
\* a file it reached resolves to no existing candidate; put the other way
\* round, after a normal return every directive of every file of the tree
\* is an edge of the tree.
C2_UnresolvedIncludeFails ==
    pc \in {"anchors", "order", "planned"} =>
        \A f \in DOMAIN itree.tree :
            Len(itree.tree[f]) = Len(FindIncludes(f))

\* C10: in each traversal (one walk of build_include_map, the walk of
\* build_include_tree, build_order) a file is expanded at most once
C10_ExpandedOnce ==
    /\ NoDup(imap.log)
    /\ NoDup(itree.log)
    /\ NoDup(iorder.calls)

\* C10: the include-graph traversals and build_order terminate on every
\* project, cyclic ones included, and expand each file at most once per
\* traversal.
C10_TraversalsTerminate == []C10_ExpandedOnce /\ <>Planned

\* the plan of a project in which a file includes itself through another
C10_Witness ==
    /\ Planned
    /\ \E f, g \in DOMAIN itree.tree :
           /\ f # g
           /\ g \in Range(itree.tree[f])
           /\ f \in Range(itree.tree[g])

\* the files reachable from the declared roots along the forward graph
Reachable == Closure(itree.tree, Range(render_files))

\* C11: every file reachable from the declared roots is in the render order
\* exactly once, and nothing else is, also when it is reachable through
\* several include paths or from several roots.
C11_ExactlyOnceInOrder ==
    Planned =>
        /\ NoDup(iorder.order)
        /\ Range(iorder.order) = Reachable

\* a plan in which two different files include the same file
C11_Witness ==
    /\ Planned
    /\ \E e1, e2 \in OrderedEdges : e1[2] = e2[2] /\ e1[1] # e2[1]

\* the resolution policy: the first existing candidate of parent(cur)/inc,
\* root_dir/inc, parent(root_dir)/inc
PolicyResolve(cur, root_dir, inc) ==
    LET cands == <<Join(DirOf(cur), inc), Join(root_dir, inc),
                   Join(Parent(root_dir), inc)>>
    IN IF \E k \in 1..3 : Exists(cands[k])
       THEN cands[CHOOSE k \in 1..3 :
                    Exists(cands[k]) /\ \A j \in 1..(k - 1) : ~Exists(cands[j])]
       ELSE Unresolved

\* C12 as claimed: every directive of every file of the graph that has an
\* existing candidate is resolved to the first existing candidate in the
\* order parent(cur), root_dir, parent(root_dir), by the graph construction
\* and by the placeholder generation alike.
C12_SameResolutionOrder ==
    Planned =>
        \A f \in DOMAIN itree.tree : \A i \in 1..Len(FindIncludes(f)) :
            LET rd == RootDirOf(itree.root_dirs, f)
                inc == FindIncludes(f)[i]
                want == PolicyResolve(f, rd, inc)
            IN want # Unresolved =>
                /\ ResolveInclude(f, rd, inc) = want
                /\ MirrorResolve(f, rd, inc) = want

\* both analyses have returned
Analyzed == pc \in {"anchors", "order", "planned"}

\* a is listed among the files that include b
ListedIncluder(b, a) ==
    b \in DOMAIN imap.included_by /\ a \in Range(imap.included_by[b])

\* C13 as claimed: for all existing files a and b, b is among the files a
\* includes in the forward adjacency if and only if a is among the files
\* that include b in the reverse adjacency.
C13_ReverseIsTranspose ==
    Analyzed =>
        \A a, b \in files :
            b \in Range(TreeGet(itree.tree, a)) <=> ListedIncluder(b, a)

RECURSIVE Count(_, _)
\* how many elements of the sequence s are x
Count(s, x) ==
    IF s = <<>> THEN 0
    ELSE (IF s[1] = x THEN 1 ELSE 0) + Count(Tail(s), x)

RECURSIVE TimesRecorded(_, _)
\* how many entries of the reverse adjacency name a as the includer, over
\* the included files of B
TimesRecorded(a, B) ==
    IF B = {} THEN 0
    ELSE LET b == CHOOSE x \in B : TRUE
         IN Count(imap.included_by[b], a) + TimesRecorded(a, B \ {b})

\* C14 as claimed: the reverse adjacency records a file as an includer once
\* per include directive of the file, also when the file is reachable from
\* several declared roots or is a declared root included by another.
C14_IncluderRecordedOnce ==
    Analyzed =>
        \A a \in files :
            TimesRecorded(a, DOMAIN imap.included_by) <= Len(FindIncludes(a))

\* the anchor index has been built
Indexed == pc \in {"order", "planned"}

\* a includes b in the forward graph, and nothing else includes b
OnlyIncluder(a, b) ==
    /\ b \in Range(TreeGet(itree.tree, a))
    /\ \A x \in DOMAIN itree.tree : b \in Range(itree.tree[x]) => x = a

\* C15 as claimed: the owner of an anchor is found by walking from the
\* declaring file to its includer until a declared root is reached: when
\* root R includes A, A includes B, and neither A nor B is a declared root,
\* an anchor declared in B is owned by R.
C15_OwnerIsIncludingRoot ==
    Indexed =>
        \A R \in Range(render_files) : \A A, B \in files \ Range(render_files) :
            (OnlyIncluder(R, A) /\ OnlyIncluder(A, B)) => anchors[B] = R

\* C31 as claimed: the set of files that is mirrored into the build
\* directory (all_files) is the set of files of the render order, and both
\* are the set of files reachable from the declared roots, a declared root
\* that is not on disk included: whatever is rendered was mirrored.
C31_MirroredIsRendered ==
    Planned =>
        /\ all_files(itree.tree) = Range(iorder.order)
        /\ Range(iorder.order) = Reachable

\* C32 as claimed: for every include directive of every file of the graph
\* the three resolvers name the same file: the edge target in the forward
\* graph, the key under which the reverse map lists the including file, and
\* the file whose page the placeholder of the mirror points to.
C32_ResolversAgree ==
    Planned =>
        \A f \in DOMAIN itree.tree :
            /\ \A i \in 1..Len(FindIncludes(f)) :
                   LET rd == RootDirOf(itree.root_dirs, f)
                       inc == FindIncludes(f)[i]
                       target == ResolveInclude(f, rd, inc)
                   IN target # Unresolved =>
                          /\ ListedIncluder(target, f)
                          /\ MirrorResolve(f, rd, inc) = target
            /\ \A b \in DOMAIN imap.included_by :
                   f \in Range(imap.included_by[b]) => b \in Range(itree.tree[f])

(***************************************************************************)
(* Properties of the code cache.                                           *)
(***************************************************************************)
\* the engine was invoked for src in the last call
InvokedFor(src) == \E j \in 1..Len(last.invoked) : last.invoked[j].src = src

\* C5: a file whose ordered block contents are those of an earlier
\* completed run is served from the persisted cache, and the engine is not
\* invoked for it.
C5_RerunServedFromCache ==
    \A i \in 1..Len(last.blocks) :
        last.blocks[i][2] \in last.ran_before =>
            /\ last.blocks[i][1] \in last.hits
            /\ ~InvokedFor(last.blocks[i][1])

\* a second call that serves a sequence whose first run timed out
C5_Witness ==
    /\ last.n = 2
    /\ \E i \in 1..Len(last.blocks) :
           /\ last.blocks[i][2] \in last.ran_before
           /\ cache[nb_hash(Cells(last.blocks[i][2]))][1] = EngineError
           /\ last.blocks[i][1] \in last.hits

\* old and new differ in an earlier block and agree on the last block: an
\* earlier block was edited, inserted or removed
EarlierBlockChanged(old, new) ==
    /\ old # new
    /\ old[Len(old)] = new[Len(new)]

\* the files of the last call whose sequence, since the file's run in the
\* call before, changed in an earlier block: <<src, old, new, position>>
EditedFiles ==
    {e \in ExecSrcs \X CodeSeqs \X CodeSeqs \X (1..2) :
        /\ e[4] <= Len(last.blocks)
        /\ last.blocks[e[4]] = <<e[1], e[3]>>
        /\ \E j \in 1..Len(last.prev_blocks) : last.prev_blocks[j] = <<e[1], e[2]>>
        /\ EarlierBlockChanged(e[2], e[3])}

\* the new sequence has a cache entry of its own when the file is reached
AlreadyRun(e) ==
    \/ e[3] \in last.ran_before
    \/ \E j \in 1..(e[4] - 1) : last.blocks[j][2] = e[3]

Reexecuted(e) ==
    /\ e[1] \notin last.hits
    /\ \E j \in 1..Len(last.invoked) :
           last.invoked[j] = [src |-> e[1], codes |-> e[3]]

\* C6 as claimed: after an earlier block of a file was edited, inserted or
\* removed the aggregate key is another one and the whole sequence of the
\* file is executed again.
C6_EarlierEditReexecutes ==
    \A e \in EditedFiles :
        /\ nb_hash(Cells(e[2])) # nb_hash(Cells(e[3]))
        /\ Reexecuted(e)

\* C6 amended: after an earlier block of a file was edited, inserted or
\* removed the aggregate key is another one, and the whole sequence of the
\* file is executed again unless the new sequence has a cache entry of its
\* own (the same ordered contents were run before, for this or another file).
C6_EarlierEditNewKey ==
    \A e \in EditedFiles :
        /\ nb_hash(Cells(e[2])) # nb_hash(Cells(e[3]))
        /\ ~AlreadyRun(e) => Reexecuted(e)

\* the first block of a two-block file was edited and the file ran again
C6_Witness ==
    \E e \in EditedFiles :
        /\ Len(e[2]) = 2
        /\ Len(e[3]) = 2
        /\ ~AlreadyRun(e)
        /\ Reexecuted(e)

IsErrorHtml(html) == html[1] = "pre style='color:red;'"

\* C7 as claimed: when the execution of a sequence fails at block k, the
\* output of block k is the error artifact, no earlier block carries it,
\* and every block after k is marked "previous cell failed".
C7_ErrorAtFailingBlock ==
    \A j \in 1..Len(last.invoked) :
        LET src == last.invoked[j].src
            codes == last.invoked[j].codes
            k == FailsAt(codes, DirOf(src))
        IN k > 0 =>
            /\ IsErrorHtml(last.results[<<src, k>>])
            /\ \A m \in 1..(k - 1) : ~IsErrorHtml(last.results[<<src, m>>])
            /\ \A m \in (k + 1)..Len(codes) :
                   last.results[<<src, m>>] = outputs_to_html(PreviousFailed)

\* in the last call the engine was invoked for file i of the dict and raised
EngineFailedFor(i) ==
    /\ InvokedFor(last.blocks[i][1])
    /\ RaisesAt(last.blocks[i][2], DirOf(last.blocks[i][1])) > 0

\* the output of block k of file j of the last call, had the engine not
\* failed for file i: a file that comes after i with the same aggregate key
\* reads the notebook of i's run, any other file reads what it read
OutputWithoutFailure(i, j, k) ==
    IF j > i /\ nb_hash(Cells(last.blocks[j][2])) = nb_hash(Cells(last.blocks[i][2]))
    THEN outputs_to_html(CellOutput(last.blocks[i][2], DirOf(last.blocks[i][1]), k))
    ELSE last.results[<<last.blocks[j][1], k>>]

\* C20 as claimed: when the engine fails for the sequence of one file, the
\* outputs of every other file of the same call, for whose own sequence the
\* engine does not fail, are what they would be without that failure.
C20_FailureStaysInFile ==
    \A i, j \in 1..Len(last.blocks) :
        (/\ i # j
         /\ EngineFailedFor(i)
         /\ RaisesAt(last.blocks[j][2], DirOf(last.blocks[j][1])) = 0) =>
            \A k \in 1..Len(last.blocks[j][2]) :
                last.results[<<last.blocks[j][1], k>>] = OutputWithoutFailure(i, j, k)

\* C21: the persisted cache is append-only: no step overwrites, modifies
\* or deletes the notebook written under an aggregate key, and two
\* different block sequences never have the same key.
C21_CacheAppendOnly ==
    /\ [](\A a, b \in CodeSeqs : a # b => nb_hash(Cells(a)) # nb_hash(Cells(b)))
    /\ [][\A key \in DOMAIN cache :
              key \in DOMAIN cache' /\ cache'[key] = cache[key]]_vars

\* a second call served one file from the cache and ran another, whose
\* notebook was added next to the ones already there
C21_Witness ==
    /\ last.n = 2
    /\ last.hits # {}
    /\ last.invoked # <<>>
    /\ Cardinality(DOMAIN cache) >= 2

\* C22: on a cache miss for a file the engine is invoked exactly once, with
\* the complete block sequence of the file in source order, and when the
\* call returns the notebook is in the cache under the aggregate key and is
\* what the file's outputs were made of, also when the execution failed.
C22_MissRunsWholeSequenceOnce ==
    \A i \in 1..Len(last.blocks) :
        LET src == last.blocks[i][1]
            codes == last.blocks[i][2]
            key == nb_hash(Cells(codes))
        IN src \notin last.hits =>
            /\ Cardinality({j \in 1..Len(last.invoked) : last.invoked[j].src = src}) = 1
            /\ \A j \in 1..Len(last.invoked) :
                   last.invoked[j].src = src => last.invoked[j].codes = codes
            /\ Cached(cache, key)
            /\ Len(cache[key]) = Len(codes)
            /\ \A k \in 1..Len(codes) :
                   last.results[<<src, k>>] = outputs_to_html(cache[key][k])

\* a miss for a file of two blocks whose run the engine failed
C22_Witness ==
    \E i \in 1..Len(last.blocks) :
        /\ last.blocks[i][1] \notin last.hits
        /\ Len(last.blocks[i][2]) = 2
        /\ RaisesAt(last.blocks[i][2], DirOf(last.blocks[i][1])) > 0
        /\ cache[nb_hash(Cells(last.blocks[i][2]))][1] = EngineError

\* C33: the notebook of a failed execution is persisted under the aggregate
\* key like any other: every sequence that was run has its entry, and a
\* file whose sequence failed in an earlier call is served the stored error
\* outputs without the engine being invoked for it.
C33_FailureServedFromCache ==
    /\ \A codes \in ran : nb_hash(Cells(codes)) \in DOMAIN cache
    /\ \A i \in 1..Len(last.blocks) :
           LET src == last.blocks[i][1]
               codes == last.blocks[i][2]
               key == nb_hash(Cells(codes))
           IN (codes \in last.ran_before /\ FailedNotebook(cache[key])) =>
                  /\ src \in last.hits
                  /\ ~InvokedFor(src)
                  /\ \A k \in 1..Len(codes) :
                         last.results[<<src, k>>] = outputs_to_html(cache[key][k])

\* a second call that serves, for a file of two blocks, the error and the
\* mark that an earlier call stored when the engine failed
C33_Witness ==
    /\ last.n = 2
    /\ \E i \in 1..Len(last.blocks) :
           LET src == last.blocks[i][1]
               codes == last.blocks[i][2]
           IN /\ Len(codes) = 2
              /\ codes \in last.ran_before
              /\ src \in last.hits
              /\ last.results[<<src, 1>>] = outputs_to_html(EngineError)
              /\ last.results[<<src, 2>>] = outputs_to_html(PreviousFailed)

\* C34: the cache key is made of the ordered block contents alone, not of
\* the file's path or directory: the cache has one entry per sequence that
\* was run, and of two different files of one call with the same sequence
\* the engine is invoked for at most one and both get the same outputs.
C34_KeyIsContentsAlone ==
    /\ DOMAIN cache = {nb_hash(Cells(codes)) : codes \in ran}
    /\ \A i, j \in 1..Len(last.blocks) :
           (i # j /\ last.blocks[i][2] = last.blocks[j][2]) =>
               /\ Cardinality({k \in 1..Len(last.invoked) :
                      last.invoked[k].src \in {last.blocks[i][1], last.blocks[j][1]}}) <= 1
               /\ \A k \in 1..Len(last.blocks[i][2]) :
                      last.results[<<last.blocks[i][1], k>>]
                          = last.results[<<last.blocks[j][1], k>>]

\* a call with two files of two directories that hold the same sequence,
\* which the engine treats differently in the two directories: it ran for
\* the first file and the second was served from the cache
C34_Witness ==
    /\ Len(last.blocks) = 2
    /\ last.blocks[1][2] = last.blocks[2][2]
    /\ engine[<<last.blocks[1][2][1], DirOf(last.blocks[1][1])>>]
           # engine[<<last.blocks[1][2][1], DirOf(last.blocks[2][1])>>]
    /\ InvokedFor(last.blocks[1][1])
    /\ last.blocks[2][1] \in last.hits
    /\ Cardinality(DOMAIN cache) = 1

(***************************************************************************)
(* Properties of watch-and-serve mode.                                     *)
(***************************************************************************)
Building(t) == builds[t].phase # "none"

\* C8: at most one build executes at any time: the initial build and the
\* builds the change events trigger never overlap.
C8_OneBuildAtATime == Cardinality({t \in Threads : Building(t)}) <= 1

\* a change event waits in the queue while the build an earlier event
\* triggered is running
C8_Witness ==
    /\ Building("observer")
    /\ \E i \in 1..Len(queue) : Qualifies(queue[i])
    /\ srcv = 2

\* a qualifying change event waits in the queue
PendingChange == \E i \in 1..Len(queue) : Qualifies(queue[i])

\* C9 as claimed: a qualifying change event that arrives while a build is
\* running is not lost: when that build is over the dispatching thread lives
\* on, a further build starts for the event, and once nothing waits and
\* nothing runs the output is that of the sources the last reported change
\* stands for.
C9_EventNotLost ==
    /\ [][(Building("observer") /\ PendingChange /\ ~Building("observer")')
            => obs' # "dead"]_vars
    /\ [](obs = "idle" /\ queue = <<>> /\ snap = Seen => outv >= seenv)
    /\ (Building("observer") /\ PendingChange)
            ~> (~PendingChange /\ Building("observer"))

\* C28 as claimed: watch-and-serve mode keeps running and keeps reacting
\* whatever the builds do: the main thread never leaves watch_and_serve
\* because a build failed, and the thread that dispatches the change events
\* to the handler never ends.
C28_WatchSurvivesFailingBuild == main # "exited" /\ obs # "dead"

\* a qualifying event is put on the queue in this step
ChangeReported ==
    /\ Len(queue') > Len(queue)
    /\ Qualifies(queue'[Len(queue')])

\* nothing runs and nothing waits
Quiescent == ~PendingChange /\ \A t \in Threads : ~Building(t)

\* C36 as claimed: a build is never triggered by what a build wrote: every
\* event that passes the handler's filter stands for a change of the sources
\* that was not reported before, and once the sources change no more the
\* watch loop comes to rest with no build running and none pending.
C36_NoBuildFromOwnWrites ==
    /\ [][ChangeReported => srcv > seenv]_vars
    /\ <>[]Quiescent

\* C35 as claimed: every file the build reads as part of the reachable set
\* lies in a directory a watch is scheduled on, so that its modification is
\* reported to the handler.
C35_ReachableIsWatched ==
    pc = "watching" =>
        \A f \in all_files(itree.tree) : DirOf(f) \in watched

(***************************************************************************)
(* Properties of build_all.                                                *)
(***************************************************************************)
\* a build_all has returned normally and no source was edited since
BuildComplete == built.n >= 1 /\ ~built.raised /\ ~dirty

\* the files root r transitively includes, by the include graph
IncludedBy(r) == Closure(build_include_tree.tree, {r})

\* a changed leaf: a file without include directives that was edited
ChangedLeaf(l) == l \in files /\ FindIncludes(l) = <<>> /\ version[l] > 0

\* the page built for r holds the text of the version of l now on disk
HoldsNewContent(r, l) ==
    /\ r \in DOMAIN pages
    /\ <<"text", l, version[l]>> \in Range(pages[r])

\* C3 as claimed: after a leaf changed and a build completed, the page of
\* every declared root that transitively includes the leaf holds the leaf's
\* new content.
C3_NoStaleRootOutput ==
    BuildComplete =>
        \A r \in Range(render_files) : \A l \in IncludedBy(r) :
            ChangedLeaf(l) => HoldsNewContent(r, l)

\* C4 as claimed: a build_all that follows another with no source change in
\* between leaves every page as the first one left it, whatever the include
\* graph and whatever the build directory held.
C4_RebuildIdentical ==
    (built.n >= 2 /\ built.clean /\ ~built.raised) => pages = built.before

\* the second build_all has returned normally, and a source was edited
\* between the first and the second
RebuiltAfterEdit == built.n = 2 /\ ~built.clean /\ ~built.raised /\ ~dirty

\* C17 as claimed: when a changed leaf is transitively included by root A
\* and not by root B, the build after the change leaves the page of B as
\* it was and changes the page of A.
C17_OnlyIncludingRootChanges ==
    RebuiltAfterEdit =>
        \A A, B \in Range(render_files) \cap DOMAIN built.before :
            \A l \in (IncludedBy(A) \ IncludedBy(B)) \ Range(render_files) :
                ChangedLeaf(l) =>
                    /\ pages[B] = built.before[B]
                    /\ pages[A] # built.before[A]

\* the files the declared roots reach along the include graph
ReachableFiles == Closure(build_include_tree.tree, Range(render_files))

\* C18: a source file that no declared root reaches through include edges
\* is never part of a build, whatever was edited: the last build did not
\* mirror it, did not render it, and the build directory has no page of it.
C18_UnreachableNeverBuilt ==
    \A f \in files \ ReachableFiles :
        /\ f \notin built.mirrored
        /\ f \notin Range(built.rendered)
        /\ f \notin DOMAIN pages

\* an unreachable file was edited and a build ran after the edit
C18_Witness ==
    /\ built.n >= 1 /\ ~built.raised /\ ~dirty
    /\ built.mirrored # {}
    /\ \E f \in files \ ReachableFiles : version[f] > 0

\* the first token of what the renderer made of the source, after the
\* navigation that add_navigation puts in front of a root's page
OwnText(page) == IF page[1] = <<"nav">> THEN page[2] ELSE page[1]

\* C19: a build that completes mirrors again and renders again every file
\* of the transitive include set of every root it builds, edited or not,
\* and the page of each such file is made of the text now on disk.
C19_IncludeSetRebuilt ==
    (built.n >= 1 /\ ~built.raised) =>
        \A r \in Range(render_files) : \A f \in IncludedBy(r) :
            /\ f \in built.mirrored
            /\ f \in Range(built.rendered)
            /\ ~dirty => OwnText(pages[f]) = <<"text", f, version[f]>>

\* a second build after the edit of one file, whose root also includes a
\* file that was not edited
C19_Witness ==
    /\ built.n = 2 /\ ~built.raised /\ ~built.clean /\ ~dirty
    /\ \E r \in Range(render_files) : \E f, g \in IncludedBy(r) \ {r} :
           /\ version[f] = 0
           /\ version[g] > 0
           /\ f \in built.mirrored
           /\ f \in Range(built.rendered)

RenderOrder == build_order(build_include_tree.tree).order

\* the first position of the render order at which the renderer exits
\* non-zero, 0 when there is none
FirstBroken ==
    IF \E i \in 1..Len(RenderOrder) : RenderOrder[i] \in broken
    THEN CHOOSE i \in 1..Len(RenderOrder) :
             /\ RenderOrder[i] \in broken
             /\ \A j \in 1..(i - 1) : RenderOrder[j] \notin broken
    ELSE 0

\* the page of f is what it was before the last build (or is still missing)
Untouched(f) ==
    IF f \in DOMAIN built.before
    THEN f \in DOMAIN pages /\ pages[f] = built.before[f]
    ELSE f \notin DOMAIN pages

\* C26: when the renderer exits non-zero for a file of the render order,
\* build_all raises; the files before it are the only ones rendered and
\* postprocessed, the page of that file and of every file after it is left
\* as it was, and navigation injection and code substitution did not run:
\* no page got the menu and every page rendered still has its code
\* placeholders.
C26_RenderFailureAborts ==
    (built.n >= 1 /\ FirstBroken > 0) =>
        /\ built.raised
        /\ ~built.finished
        /\ built.outputs = EmptyDict
        /\ Len(built.rendered) < FirstBroken
        /\ \A i \in 1..Len(built.rendered) : built.rendered[i] = RenderOrder[i]
        /\ \A i \in FirstBroken..Len(RenderOrder) : Untouched(RenderOrder[i])
        /\ \A f \in Range(built.rendered) :
               /\ <<"nav">> \notin Range(pages[f])
               /\ <<"code", f, 1>> \in Range(pages[f])
               /\ \A i \in 1..Len(pages[f]) : pages[f][i][1] # "out"

\* the renderer failed for a file in the middle of the order: a file was
\* rendered before it and a declared root comes after it
C26_Witness ==
    /\ built.n >= 1
    /\ FirstBroken > 1
    /\ FirstBroken < Len(RenderOrder)
    /\ Len(built.rendered) = FirstBroken - 1
    /\ built.raised

\* C27 as claimed: in a build, what postprocess_html splices in for a
\* placeholder is the page rendered and postprocessed earlier in the same
\* build: never a page left over from an earlier build, never the page of
\* the file itself as the renderer left it, and never nothing because the
\* target is rendered later in the build.
C27_SplicedPageIsFresh ==
    \A s \in built.splices :
        /\ s[3] # "stale"
        /\ s[3] # "unprocessed"
        /\ s[3] = "absent" => s[2] \notin Range(RenderOrder)

\* the code placeholders and the substituted outputs of a page
CodeTokens(page) == {i \in 1..Len(page) : page[i][1] = "code"}
OutTokens(page) == {i \in 1..Len(page) : page[i][1] = "out"}

\* C30 as claimed: when build_all has completed (and no source was edited
\* since), no page of the build directory holds a code placeholder, and
\* wherever the placeholder of block idx of file src stood, the page's own
\* or a spliced one, stands the output this build's execution gave for
\* block idx of src.
C30_PlaceholdersHoldOutputs ==
    (built.finished /\ ~dirty) =>
        \A f \in DOMAIN pages :
            /\ CodeTokens(pages[f]) = {}
            /\ \A i \in OutTokens(pages[f]) :
                   /\ <<pages[f][i][2], pages[f][i][3]>> \in DOMAIN built.outputs
                   /\ pages[f][i][4] = built.outputs[<<pages[f][i][2], pages[f][i][3]>>]

(***************************************************************************)
(* Properties of the anchor index and the reference resolver.              *)
(***************************************************************************)
RECURSIVE Unlink(_)
\* the text an output stands for when every link is written back as the
\* token it replaced
Unlink(out) ==
    IF out = <<>> THEN <<>>
    ELSE (IF out[1][1] = "link" THEN <<"@">> \o out[1][4] ELSE <<out[1][2]>>)
         \o Unlink(Tail(out))

\* the positions of text at which a reference token starts
TokenStarts(text) == {i \in 1..Len(text) : text[i] = "@" /\ IdentEnd(text, i + 1) > i}

\* the key of the token that starts at i
TokenKey(text, i) == SubSeq(text, i + 1, IdentEnd(text, i + 1))

\* C23: a reference token whose key has no entry in the anchor index is
\* left in the text exactly as written, and only tokens with an entry are
\* rewritten: every link stands where a whole token with that key stood and
\* carries the entry of the index, there are as many links as tokens with an
\* entry, and everything else is character for character the input.
C23_UnresolvedLeftVerbatim ==
    doc.stage = "done" =>
        /\ Unlink(doc.out) = doc.text
        /\ \A j \in 1..Len(doc.out) :
               doc.out[j][1] = "link" =>
                   /\ doc.out[j][4] \in DOMAIN refindex
                   /\ doc.out[j][2] = refindex[doc.out[j][4]][2]
                   /\ doc.out[j][3] = refindex[doc.out[j][4]][1]
                   /\ j < Len(doc.out) =>
                          ~(doc.out[j + 1][1] = "chr" /\ doc.out[j + 1][2] \in IdentChars)
        /\ Cardinality({j \in 1..Len(doc.out) : doc.out[j][1] = "link"})
             = Cardinality({i \in TokenStarts(doc.text) :
                               TokenKey(doc.text, i) \in DOMAIN refindex})

\* a text with a token that has an anchor and a token that has none
C23_Witness ==
    /\ doc.stage = "done"
    /\ \E i, j \in TokenStarts(doc.text) :
           /\ TokenKey(doc.text, i) \in DOMAIN refindex
           /\ TokenKey(doc.text, j) \notin DOMAIN refindex
    /\ \E j \in 1..Len(doc.out) : doc.out[j][1] = "link"

\* the declarations of key, by their position in the scan
DeclaredAt(key) == {i \in 1..Len(decls) : decls[i][2] = key}

\* C24: when a key is declared more than once the index has one entry for
\* it, that of the declaration scanned last; a key that is not declared
\* has none.
C24_LastDeclarationWins ==
    doc.stage # "start" =>
        /\ DOMAIN refindex = {decls[i][2] : i \in 1..Len(decls)}
        /\ \A key \in DOMAIN refindex :
               LET i == CHOOSE n \in DeclaredAt(key) : \A m \in DeclaredAt(key) : m <= n
               IN refindex[key] = <<decls[i][1], decls[i][3]>>

\* a key declared twice, in two files and with two labels
C24_Witness ==
    /\ doc.stage # "start"
    /\ \E i, j \in 1..Len(decls) :
           /\ i < j
           /\ decls[i][2] = decls[j][2]
           /\ decls[i][1] # decls[j][1]
           /\ decls[i][3] # decls[j][3]

(***************************************************************************)
(* Properties of load_yaml.                                                *)
(***************************************************************************)
\* C29: after load_yaml the relations are symmetric and closed: every name a
\* node has as a parent or as a child is a node of the graph, and for all
\* nodes a and b, b is a child of a exactly when a is a parent of b.
C29_GraphSymmetricAndClosed ==
    graph.stage = "loaded" =>
        LET g == graph.nodes
        IN /\ \A a \in DOMAIN g : g[a].parents \cup g[a].children \subseteq DOMAIN g
           /\ \A a \in DOMAIN g : \A b \in DOMAIN g :
                  b \in g[a].children <=> a \in g[b].parents

\* a graph was loaded in which a name that was only mentioned became a node
\* and a declared node got a child it did not list
C29_Witness ==
    /\ graph.stage = "loaded"
    /\ DOMAIN graph.nodes # Range(graph.order)
    /\ \E a \in Range(graph.order) : graph.nodes[a].children # graph.data[a].children

(***************************************************************************)
(* Properties of postprocess_html.                                         *)
(***************************************************************************)
\* the page holds an include placeholder
HasPlaceholder(page) == \E i \in 1..Len(page) : page[i][1] = "include"

\* C16 as claimed: after postprocess_html has run on a file, no include
\* placeholder remains in the file's page, also when the page spliced in
\* had not been postprocessed itself.
C16_NoPlaceholderRemains ==
    posted.n > 0 => ~HasPlaceholder(pages[posted.file])

====
